---- MODULE Spec2Model ----
(***************************************************************************)
(* Web3 Guardian backend: the job registry of backend/main.py              *)
(* (analysis_results, analyze_contract, run_analysis, perform_static_      *)
(* analysis, perform_dynamic_analysis) and the caching analysis pipeline   *)
(* of backend/src/rag/rag_pipeline.py (SmartContractRAGPipeline).          *)
(*                                                                         *)
(* Conventions.  Python None is the string "None".  Scores and             *)
(* confidences are integers: security_score in tenths (10.0 = 100),        *)
(* confidence in hundredths (0.85 = 85).  A Python dict is a TLA+ function *)
(* whose DOMAIN is the dict's key set, so a missing key is a missing       *)
(* domain element.  Every write to a shared dict is one step; the steps of *)
(* different tasks interleave freely, which includes every schedule of the *)
(* event loop.                                                             *)
(*                                                                         *)
(* Specifications.  Spec: the registry and the pipeline with callers that  *)
(* take turns.  LiveSpec: Spec with the scheduling guarantees.  GetSpec:   *)
(* the registry polled by GET.  OverlapSpec, SpellingSpec: the pipeline    *)
(* with overlapping calls, for one address and for two spellings of it.    *)
(* ScoreSpec: the security score on arbitrary lists of findings.           *)
(* MergeSpec: _combine_analysis_results on arbitrary sub-results.          *)
(* JobLiveSpec: the registry alone with the scheduling guarantees.         *)
(* RetrySpec: TenderlyClient._make_api_request of                          *)
(* backend/src/simulation/tenderly_new.py on every sequence of replies.    *)
(***************************************************************************)
EXTENDS Integers, Sequences, FiniteSets, TLC

\* ------------------------------------------------------------- bounds
NumJobs == 2          \* ids that submit can hand out
NumCalls == 2         \* call slots of SmartContractRAGPipeline.analyze_contract
MaxTime == 3          \* the clock stops advancing here
TicksPerHour == 2     \* clock ticks in one hour
MaxFindings == 7      \* longest list of findings handed to the scoring
MaxReported == 2      \* longest list of vulnerabilities in one sub-result
MaxRetries == 3       \* largest `retries` handed to _make_api_request

VARIABLES
    analysis_results,  \* main.py: the global dict id -> job record
    task,              \* main.py: the background task of each submitted id
    responses,         \* main.py: what POST /api/analyze/contract returned, per id
    cache,             \* rag_pipeline.py: self.cache, key -> entry
    call,              \* rag_pipeline.py: each analyze_contract invocation
    now,               \* the clock read by datetime.utcnow()
    got,               \* main.py: the response of GET /api/analysis/{id}, when the
                       \* step just taken served one (NoResponse otherwise)
    vulnerabilities,   \* main.py: the findings list of a perform_static_analysis
    scored,            \* main.py: the result dict of that analysis, empty until
                       \* the score is computed
    sub_results,       \* rag_pipeline.py: the arguments of a _combine_analysis_results
    combined,          \* rag_pipeline.py: the dict it returns, empty until it has
    api                \* tenderly_new.py: one _make_api_request invocation

vars == <<analysis_results, task, responses, cache, call, now, got,
          vulnerabilities, scored, sub_results, combined, api>>
scoreVars == <<vulnerabilities, scored>>
mergeVars == <<sub_results, combined>>
jobVars == <<analysis_results, task, responses, got, scoreVars>>
pipeVars == <<cache, call, mergeVars>>
clientVars == <<api>>

Max(a, b) == IF a >= b THEN a ELSE b

\* The value of got after a step that served no GET.
NoResponse == [response |-> "None"]

\* ===================================================================
\* backend/main.py
\* ===================================================================
JobIds == 1..NumJobs
JobKinds == {"static", "dynamic"}
Addresses == {"0xAb", "0xab"}     \* one address in two spellings
PipeAddresses == {"0xAb"}         \* the addresses the callers of this model ask about
Networks == {"mainnet"}

\* ContractAnalysisRequest: analysis_types is a List[Literal['static','dynamic']];
\* the empty list passes validation.
ContractAnalysisRequest ==
    [contract_address : PipeAddresses, network : Networks, analysis_types : SUBSET JobKinds]

\* What the lexical scan can see in a fetched source ("call" stands for any of
\* .call / .send / .transfer), and the sources the collaborator serves here.
Constructs == {"selfdestruct", "delegatecall", "call"}
FetchedSources == {{}, {"call"}, {"selfdestruct", "delegatecall"}, Constructs}

\* fetch_contract_details: metadata / bytecode failure raises (fetch = "failed");
\* a TenderlyError on the source leaves source = None, is_verified = FALSE.
ContractDetails ==
    {[fetch |-> "failed", is_verified |-> FALSE, source |-> {}]}
    \cup {[fetch |-> "ok", is_verified |-> FALSE, source |-> {}]}
    \cup [fetch : {"ok"}, is_verified : {TRUE}, source : FetchedSources]

\* The details a timed-out HTTP request leaves: the request error becomes a
\* TenderlyError, on the source fetch (unverified) or on metadata / bytecode.
TimedOutDetails ==
    {[fetch |-> "failed", is_verified |-> FALSE, source |-> {}],
     [fetch |-> "ok", is_verified |-> FALSE, source |-> {}]}

Vuln(sev, title) == [severity |-> sev, title |-> title]

\* The three checks of the scan, in the order the code appends.
StaticVulns(source) ==
    (IF "selfdestruct" \in source
        THEN <<Vuln("high", "Self-Destruct Function")>> ELSE <<>>)
    \o (IF "delegatecall" \in source
        THEN <<Vuln("high", "DelegateCall Usage")>> ELSE <<>>)
    \o (IF "call" \in source
        THEN <<Vuln("medium", "Potential Reentrancy Risk")>> ELSE <<>>)

Deduction(v) ==
    IF v.severity = "high" THEN 20 ELSE IF v.severity = "medium" THEN 10 ELSE 5

RECURSIVE SumDeductions(_)
SumDeductions(vs) ==
    IF vs = <<>> THEN 0 ELSE Deduction(Head(vs)) + SumDeductions(Tail(vs))

\* A score without the floor.
SecurityScoreUnfloored(vs) == 100 - SumDeductions(vs)

SecurityScore(vs) ==
    IF vs # <<>> THEN Max(0, 100 - SumDeductions(vs)) ELSE 100

\* The dict the except branch of perform_static_analysis returns.
StaticFallback ==
    [vulnerabilities |-> <<[severity |-> "medium", title |-> "Reentrancy Vulnerability",
                            location |-> "contracts/Vault.sol:42-58"]>>,
     optimizations |-> <<[title |-> "Gas Optimization",
                          location |-> "contracts/Vault.sol:23"]>>,
     security_score |-> 75]

\* A static analysis that treats a missing source as an error.
perform_static_analysis_source_required(details) ==
    IF details.fetch = "failed" \/ ~details.is_verified THEN StaticFallback
    ELSE
        [vulnerabilities |-> StaticVulns(details.source), optimizations |-> <<>>,
         security_score |-> SecurityScore(StaticVulns(details.source)),
         warnings |-> <<>>, is_verified |-> TRUE]

perform_static_analysis(details) ==
    IF details.fetch = "failed" THEN StaticFallback
    ELSE IF ~details.is_verified THEN
        [vulnerabilities |-> <<>>, optimizations |-> <<>>, security_score |-> 0,
         warnings |-> <<"Contract source code is not verified. Static analysis is limited.">>,
         is_verified |-> FALSE]
    ELSE
        [vulnerabilities |-> StaticVulns(details.source), optimizations |-> <<>>,
         security_score |-> SecurityScore(StaticVulns(details.source)),
         warnings |-> <<>>, is_verified |-> TRUE]

\* What the simulation service and the metadata source can do to
\* perform_dynamic_analysis.
SimReplies == {"ok", "reverted", "unreachable", "metadata_error"}

perform_dynamic_analysis(sim) ==
    IF sim = "ok" THEN
        [simulation_id |-> "sim-1", gas_used |-> 21000, status |-> TRUE, error |-> "None"]
    ELSE
        [simulation_id |-> "None", gas_used |-> 0, status |-> FALSE,
         error |-> CASE sim = "reverted" -> "Transaction simulation failed: execution reverted"
                     [] sim = "unreachable" -> "Failed to simulate transaction: request error"
                     [] sim = "timeout" -> "Failed to simulate transaction: timed out"
                     [] OTHER -> "Unexpected error: Failed to fetch contract metadata"]

\* An id generator that hands out the latest id again.
NewIdReused == Max(1, Cardinality(DOMAIN analysis_results))

\* uuid.uuid4(): an id no record has yet.
NewId == Cardinality(DOMAIN analysis_results) + 1

NewJobRecord(request) ==
    [status |-> "pending", results |-> <<>>,
     contract_address |-> request.contract_address,
     network |-> request.network, timestamp |-> now]

\* run_analysis awaited inside the request handler instead of being queued.
StartedTask(request) ==
    [pc |-> IF request.analysis_types = {} THEN "finish"
            ELSE IF "static" \in request.analysis_types THEN "static_call"
            ELSE "dynamic_call",
     request |-> request, results |-> <<>>,
     invoked |-> IF "static" \in request.analysis_types THEN {"static"}
                 ELSE request.analysis_types]

\* background_tasks.add_task(run_analysis, ...): the task is queued, not run.
QueuedTask(request) ==
    [pc |-> "queued", request |-> request, results |-> <<>>, invoked |-> {}]

\* POST /api/analyze/contract
analyze_contract_route(request) ==
    /\ NewId \in JobIds
    /\ analysis_results' = (NewId :> NewJobRecord(request)) @@ analysis_results
    /\ task' = (NewId :> QueuedTask(request)) @@ task
    /\ responses' = (NewId :> [analysis_id |-> NewId, status |-> "pending",
                               results |-> <<>>]) @@ responses
    /\ got' = NoResponse
    /\ UNCHANGED <<scoreVars, pipeVars, clientVars, now>>

\* A run_analysis that waits for its client before it runs any block.
AfterStartParked(request) == "parked"

\* Where run_analysis goes after the static block / at its start.
AfterStart(request) ==
    IF "static" \in request.analysis_types THEN "static_call"
    ELSE IF "dynamic" \in request.analysis_types THEN "dynamic_call" ELSE "finish"

\* A run_analysis whose dynamic block is not guarded by the request's kinds.
AfterStaticUnguarded(request) == "dynamic_call"

AfterStatic(request) ==
    IF "dynamic" \in request.analysis_types THEN "dynamic_call" ELSE "finish"

Invoking(pc) ==
    IF pc = "static_call" THEN {"static"}
    ELSE IF pc = "dynamic_call" THEN {"dynamic"} ELSE {}

\* run_analysis, lines 355-361: the record is replaced, status in_progress.
RunStart(id) ==
    /\ id \in DOMAIN task
    /\ task[id].pc = "queued"
    /\ analysis_results' =
         [analysis_results EXCEPT ![id] = [status |-> "in_progress", results |-> <<>>]]
    /\ task' = [task EXCEPT ![id].pc = AfterStart(task[id].request),
                            ![id].invoked = Invoking(AfterStart(task[id].request))]
    /\ got' = NoResponse
    /\ UNCHANGED <<responses, scoreVars, pipeVars, clientVars, now>>

\* The static block once perform_static_analysis has returned `result`.
StaticBlock(id, result) ==
    /\ analysis_results' =
         [analysis_results EXCEPT ![id].results = ("static" :> result) @@ @]
    /\ task' = [task EXCEPT ![id].pc = AfterStatic(task[id].request),
                            ![id].results = ("static" :> result) @@ @,
                            ![id].invoked = @ \cup Invoking(AfterStatic(task[id].request))]
    /\ got' = NoResponse
    /\ UNCHANGED <<responses, scoreVars, pipeVars, clientVars, now>>

\* The collaborators answer (or fail) and perform_static_analysis returns.
StaticReturn(id) ==
    /\ id \in DOMAIN task
    /\ task[id].pc = "static_call"
    /\ \E details \in ContractDetails : StaticBlock(id, perform_static_analysis(details))

\* requests' timeout (TenderlyClient.timeout) ends a fetch that gets no answer.
StaticTimeout(id) ==
    /\ id \in DOMAIN task
    /\ task[id].pc = "static_call"
    /\ \E details \in TimedOutDetails : StaticBlock(id, perform_static_analysis(details))

\* A dynamic block that assigns a new results dict holding its own entry only.
DynamicBlockReplacing(id, result) ==
    /\ analysis_results' =
         [analysis_results EXCEPT ![id].results = ("dynamic" :> result)]
    /\ task' = [task EXCEPT ![id].pc = "finish",
                            ![id].results = ("dynamic" :> result) @@ @]
    /\ got' = NoResponse
    /\ UNCHANGED <<responses, scoreVars, pipeVars, clientVars, now>>

DynamicBlock(id, result) ==
    /\ analysis_results' =
         [analysis_results EXCEPT ![id].results = ("dynamic" :> result) @@ @]
    /\ task' = [task EXCEPT ![id].pc = "finish",
                            ![id].results = ("dynamic" :> result) @@ @]
    /\ got' = NoResponse
    /\ UNCHANGED <<responses, scoreVars, pipeVars, clientVars, now>>

DynamicReturn(id) ==
    /\ id \in DOMAIN task
    /\ task[id].pc = "dynamic_call"
    /\ \E sim \in SimReplies : DynamicBlock(id, perform_dynamic_analysis(sim))

\* requests' timeout on the simulation request: a request error on every attempt.
DynamicTimeout(id) ==
    /\ id \in DOMAIN task
    /\ task[id].pc = "dynamic_call"
    /\ DynamicBlock(id, perform_dynamic_analysis("timeout"))

\* run_analysis, lines 380-384.
RunComplete(id) ==
    /\ id \in DOMAIN task
    /\ task[id].pc = "finish"
    /\ analysis_results' =
         [analysis_results EXCEPT ![id] =
             [k \in DOMAIN @ \cup {"status", "results"} |->
                 IF k = "status" THEN "completed"
                 ELSE IF k = "results" THEN task[id].results ELSE @[k]]]
    /\ task' = [task EXCEPT ![id].pc = "done"]
    /\ got' = NoResponse
    /\ UNCHANGED <<responses, scoreVars, pipeVars, clientVars, now>>

\* run_analysis, lines 386-391: an exception that a perform_* function did not
\* convert (one raised outside its handlers) reaches the outer except.
RunFail(id) ==
    /\ id \in DOMAIN task
    /\ task[id].pc \in {"static_call", "dynamic_call"}
    /\ analysis_results' =
         [analysis_results EXCEPT ![id] = [status |-> "failed", error |-> "internal error"]]
    /\ task' = [task EXCEPT ![id].pc = "done"]
    /\ got' = NoResponse
    /\ UNCHANGED <<responses, scoreVars, pipeVars, clientVars, now>>

\* The ids a client may ask about: the ids submit can hand out and one more,
\* which no submit ever returns.
UnknownId == NumJobs + 1
GetIds == JobIds \cup {UnknownId}

\* HTTPException(404) of get_analysis.
NotFound(analysis_id) == [status_code |-> 404, analysis_id |-> analysis_id]

\* A get_analysis that subscripts the record (result["results"]) where the code
\* uses result.get: a missing key is a KeyError.
get_analysis_subscript(analysis_id) ==
    IF analysis_id \notin DOMAIN analysis_results
          \/ DOMAIN analysis_results[analysis_id] = {}
    THEN NotFound(analysis_id)
    ELSE IF {"status", "results"} \subseteq DOMAIN analysis_results[analysis_id]
    THEN [analysis_id |-> analysis_id,
          status |-> analysis_results[analysis_id].status,
          results |-> analysis_results[analysis_id].results,
          error |-> IF "error" \in DOMAIN analysis_results[analysis_id]
                    THEN analysis_results[analysis_id].error ELSE "None"]
    ELSE [raised |-> "KeyError", analysis_id |-> analysis_id]

\* GET /api/analysis/{analysis_id}, lines 431-446: `not result` is true for a
\* missing record and for an empty one; result["status"] raises KeyError when
\* the record has no status; results and error are read with .get.
get_analysis(analysis_id) ==
    IF analysis_id \notin DOMAIN analysis_results
          \/ DOMAIN analysis_results[analysis_id] = {}
    THEN NotFound(analysis_id)
    ELSE IF "status" \in DOMAIN analysis_results[analysis_id]
    THEN [analysis_id |-> analysis_id,
          status |-> analysis_results[analysis_id].status,
          results |-> IF "results" \in DOMAIN analysis_results[analysis_id]
                      THEN analysis_results[analysis_id].results ELSE <<>>,
          error |-> IF "error" \in DOMAIN analysis_results[analysis_id]
                    THEN analysis_results[analysis_id].error ELSE "None"]
    ELSE [raised |-> "KeyError", analysis_id |-> analysis_id]

\* The handler has no await: it reads the record and answers in one step.
Get(analysis_id) ==
    /\ got' = get_analysis(analysis_id)
    /\ UNCHANGED <<analysis_results, task, responses, scoreVars, pipeVars, clientVars, now>>

\* ===================================================================
\* backend/src/rag/rag_pipeline.py
\* ===================================================================
Calls == 1..NumCalls
Kinds == <<"static", "dynamic", "rag", "gas">>   \* the order of the gather arguments
KindSet == {Kinds[i] : i \in 1..Len(Kinds)}
Codes == {"contract C {}"}

\* timedelta(hours=1)
TTL == 1 * TicksPerHour

\* sha256(address + ":" + md5(code)): the hashes are taken as collision free, so
\* the key is the pair it was computed from; the address enters as it was given.
_generate_cache_key(address, code) ==
    [sha256 |-> <<address, [md5 |-> code]>>]

\* An expiry test that still serves the entry at its expiry time.
_is_cache_valid_inclusive(cached_item) ==
    IF "timestamp" \notin DOMAIN cached_item \/ "ttl" \notin DOMAIN cached_item
    THEN FALSE
    ELSE now <= cached_item.timestamp + cached_item.ttl

_is_cache_valid(cached_item) ==
    IF "timestamp" \notin DOMAIN cached_item \/ "ttl" \notin DOMAIN cached_item
    THEN FALSE
    ELSE now < cached_item.timestamp + cached_item.ttl

\* The dict each sub-analysis returns; reply is what its collaborator did
\* ("ok": returned, "raise": raised an exception the runner's handler catches).
_static_analysis(reply) ==
    IF reply = "ok"
    THEN [type |-> "static_analysis", findings |-> "parsed response", confidence |-> 85]
    ELSE [type |-> "static_analysis", error |-> "gemini error"]

_dynamic_analysis(transaction_data, reply) ==
    IF ~transaction_data
    THEN [type |-> "dynamic_analysis", status |-> "skipped",
          reason |-> "No transaction data provided"]
    ELSE IF reply = "ok"
    THEN [type |-> "dynamic_analysis", simulation |-> "simulation result", confidence |-> 90]
    ELSE [type |-> "dynamic_analysis", error |-> "simulation error"]

_rag_analysis(reply) ==
    IF reply = "ok"
    THEN [type |-> "rag_analysis", analysis |-> "chain response", confidence |-> 80]
    ELSE [type |-> "rag_analysis", error |-> "chain error"]

_gas_analysis(reply) ==
    IF reply = "ok"
    THEN [type |-> "gas_analysis", optimizations |-> "parsed response", confidence |-> 75]
    ELSE [type |-> "gas_analysis", error |-> "gemini error"]

Runner(kind, transaction_data, reply) ==
    CASE kind = "static" -> _static_analysis(reply)
      [] kind = "dynamic" -> _dynamic_analysis(transaction_data, reply)
      [] kind = "rag" -> _rag_analysis(reply)
      [] OTHER -> _gas_analysis(reply)

\* The state of one awaitable handed to asyncio.gather.
Running == [state |-> "running"]
Returned(value) == [state |-> "returned", value |-> value]
Raised == [state |-> "raised", exception |-> "unexpected exception"]

\* A wait that resolves on the first awaitable to finish.
GatherFirstCompleted(sub) == \E k \in DOMAIN sub : sub[k].state # "running"

\* gather without return_exceptions: an awaitable's exception is raised.
GatherRaisesFirst(sub) == \E k \in DOMAIN sub : sub[k].state = "raised"

\* gather(..., return_exceptions=True): resolves when every awaitable is done,
\* and an exception is delivered as a result instead of being raised.
GatherDone(sub) == \A k \in KindSet : sub[k].state # "running"
GatherRaises(sub) == FALSE
GatherResults(sub) == [i \in 1..Len(Kinds) |-> sub[Kinds[i]]]

\* isinstance(r, dict) and "error" not in r
IsValidResult(r) == r.state = "returned" /\ "error" \notin DOMAIN r.value

ValidResults(results) == SelectSeq(results, IsValidResult)

\* r.get("confidence", 0)
GetConfidence(d) == IF "confidence" \in DOMAIN d THEN d.confidence ELSE 0

RECURSIVE SumConfidence(_)
SumConfidence(rs) ==
    IF rs = <<>> THEN 0 ELSE GetConfidence(Head(rs).value) + SumConfidence(Tail(rs))

\* np.mean of at most four hundredths, kept exact in units of 1/1200.
MeanConfidence(rs) == (12 * SumConfidence(rs)) \div Len(rs)

\* The vulnerabilities one entry of a report's analyses lists.
EntryVulns(entry) ==
    IF "findings" \in DOMAIN entry THEN entry.findings
    ELSE IF "analysis" \in DOMAIN entry THEN entry.analysis ELSE <<>>

RECURSIVE Flatten(_)
Flatten(entries) ==
    IF entries = <<>> THEN <<>> ELSE EntryVulns(Head(entries)) \o Flatten(Tail(entries))

\* The vulnerabilities a report lists, in the order in which it lists them:
\* its vulnerability list when it has one, else those of its analyses.
ReportVulns(report) ==
    IF "vulnerabilities" \in DOMAIN report THEN report.vulnerabilities
    ELSE Flatten(report.analyses)

\* The vulnerabilities of the successful sub-results, in the order seen.
InputVulns(results) ==
    Flatten([i \in 1..Len(ValidResults(results)) |-> ValidResults(results)[i].value])

\* A risk score that grows with the number of vulnerabilities reported.
overall_risk_score_counting(results) ==
    IF 10 * Len(InputVulns(results)) <= 100 THEN 10 * Len(InputVulns(results)) ELSE 100

\* combined["overall_risk_score"]: set to 0 at line 540 and never assigned again.
overall_risk_score(results) == 0

_combine_analysis_results(results) ==
    [analysis_timestamp |-> now,
     overall_risk_score |-> overall_risk_score(results),
     analyses |-> [i \in 1..Len(ValidResults(results)) |-> ValidResults(results)[i].value],
     summary |-> [total_vulnerabilities |-> 0, critical_issues |-> 0, high_severity |-> 0,
                  medium_severity |-> 0, low_severity |-> 0],
     recommendations |-> <<>>,
     confidence_score |->
        IF ValidResults(results) # <<>> THEN MeanConfidence(ValidResults(results)) ELSE 0]

\* The dict of the except branch of analyze_contract.
ErrorReturn ==
    [success |-> FALSE, error |-> "exception", analysis_type |-> "comprehensive_rag_analysis"]

CacheEntry(data) == [data |-> data, timestamp |-> now, ttl |-> TTL]

\* A store that keeps the entry a key already has.
CacheStoreIfAbsent(key, entry) == cache @@ (key :> entry)

\* self.cache[cache_key] = {...}: the entry of the key is replaced.
CacheStore(key, entry) == (key :> entry) @@ cache

\* An analyze_contract that never consults the cache.
CacheNeverHit(key) == FALSE

\* The cache test of analyze_contract, lines 358-360.
CacheHit(key) == key \in DOMAIN cache /\ _is_cache_valid(cache[key])

\* analyze_contract up to its first suspension: a hit returns the cached data,
\* a miss hands the four coroutines to gather.
Enter(c, address, code, transaction_data) ==
    /\ call[c].pc = "idle"
    /\ LET key == _generate_cache_key(address, code)
           request == [pc |-> "idle", address |-> address, code |-> code,
                       transaction_data |-> transaction_data, key |-> key]
       IN  IF CacheHit(key)
           THEN call' = [call EXCEPT ![c] =
                    [request EXCEPT !.pc = "done"] @@
                    [hit |-> TRUE, sub |-> [k \in KindSet |-> [state |-> "not started"]],
                     ret |-> cache[key].data]]
           ELSE call' = [call EXCEPT ![c] =
                    [request EXCEPT !.pc = "gathering"] @@
                    [hit |-> FALSE, sub |-> [k \in KindSet |-> Running]]]
    /\ UNCHANGED <<cache, mergeVars, jobVars, clientVars, now>>

\* One sub-analysis runs to its return: its collaborator answered or raised.
RunnerReturn(c, kind, reply) ==
    /\ call[c].pc = "gathering"
    /\ call[c].sub[kind].state = "running"
    /\ call' = [call EXCEPT ![c].sub[kind] =
                  Returned(Runner(kind, call[c].transaction_data, reply))]
    /\ UNCHANGED <<cache, mergeVars, jobVars, clientVars, now>>

\* One sub-analysis ends with an exception its own handler did not convert.
RunnerRaise(c, kind) ==
    /\ call[c].pc = "gathering"
    /\ call[c].sub[kind].state = "running"
    /\ call' = [call EXCEPT ![c].sub[kind] = Raised]
    /\ UNCHANGED <<cache, mergeVars, jobVars, clientVars, now>>

\* analyze_contract from the return of gather to its own return, lines 373-396.
Combine(c) ==
    /\ call[c].pc = "gathering"
    /\ GatherDone(call[c].sub)
    /\ IF GatherRaises(call[c].sub)
       THEN /\ call' = [call EXCEPT ![c] = [@ EXCEPT !.pc = "done"] @@ [ret |-> ErrorReturn]]
            /\ UNCHANGED cache
       ELSE LET comprehensive_result ==
                    _combine_analysis_results(GatherResults(call[c].sub))
            IN  /\ cache' = CacheStore(call[c].key, CacheEntry(comprehensive_result))
                /\ call' = [call EXCEPT ![c] =
                              [@ EXCEPT !.pc = "done"] @@ [ret |-> comprehensive_result]]
    /\ UNCHANGED <<mergeVars, jobVars, clientVars, now>>

\* The caller drops the returned value; the slot serves the next invocation.
Release(c) ==
    /\ call[c].pc = "done"
    /\ call' = [call EXCEPT ![c] = [pc |-> "idle"]]
    /\ UNCHANGED <<cache, mergeVars, jobVars, clientVars, now>>

\* ------------------------------------------------------------- TenderlyClient
\* requests.request and response.raise_for_status end in one of these: a body
\* that parses, an empty body, a requests.exceptions.RequestException, or a
\* body that does not parse.
Bodies == {"json", "empty"}
RequestExceptions == {"Timeout", "ConnectionError", "HTTPError"}
HttpReplies == Bodies \cup RequestExceptions \cup {"bad_json"}
BackoffFactors == {2, 3}

\* response.json() on a body that does not parse raises an exception that is
\* a RequestException in some releases of requests and a plain ValueError in
\* others.
JsonErrors == {"JSONDecodeError", "ValueError"}

RECURSIVE Pow(_, _)
Pow(b, n) == IF n = 0 THEN 1 ELSE b * Pow(b, n - 1)

IdleRequest == [pc |-> "idle"]

\* `if attempt < retries - 1` with the sleep left unguarded.
SleepsAfterAlways(attempt, retries) == TRUE

\* `if attempt < retries - 1`: sleep after a failed attempt.
SleepsAfter(attempt, retries) == attempt < retries - 1

\* Leaving `for attempt in range(retries)`: the lines after the loop raise.
NextIteration(r, attempt) ==
    IF attempt < r.retries
    THEN [r EXCEPT !.pc = "request", !.attempt = attempt]
    ELSE [r EXCEPT !.pc = "raised", !.raised = "TenderlyError"]

\* The call: the loop is entered with attempt = 0, or not at all.
_make_api_request(retries, backoff_factor) ==
    /\ api.pc = "idle"
    /\ api' = NextIteration([pc |-> "request", retries |-> retries,
                             backoff_factor |-> backoff_factor, attempt |-> 0,
                             replies |-> <<>>, slept |-> <<>>,
                             last_exception |-> "None",
                             returned |-> "None", raised |-> "None"], 0)
    /\ UNCHANGED <<jobVars, pipeVars, now>>

\* The except clause of one iteration, for the RequestException e.
Except(r, e) ==
    NextIteration(
        [r EXCEPT !.last_exception = e,
                  !.slept = IF SleepsAfter(r.attempt, r.retries)
                            THEN Append(@, Pow(r.backoff_factor, r.attempt))
                            ELSE @],
        r.attempt + 1)

\* One iteration of the loop: requests.request answers with `reply`; `e` is
\* the exception response.json() raises when the body does not parse.
Attempt(reply, e) ==
    /\ api.pc = "request"
    /\ LET r == [api EXCEPT !.replies = Append(@, reply)]
       IN  api' = IF reply = "empty" THEN [r EXCEPT !.pc = "returned", !.returned = "{}"]
                  ELSE IF reply = "json" THEN [r EXCEPT !.pc = "returned", !.returned = "json"]
                  ELSE IF reply \in RequestExceptions THEN Except(r, reply)
                  ELSE IF e = "JSONDecodeError" THEN Except(r, e)
                  ELSE [r EXCEPT !.pc = "raised", !.raised = e]
    /\ UNCHANGED <<jobVars, pipeVars, now>>

\* ------------------------------------------------------------- system
Replies == {"ok", "raise"}
NoCallInFlight == \A c \in Calls : call[c].pc = "idle"

\* datetime.utcnow() advances.
Tick ==
    /\ now < MaxTime
    /\ now' = now + 1
    /\ UNCHANGED <<jobVars, pipeVars, clientVars>>

Init ==
    /\ analysis_results = <<>>
    /\ task = <<>>
    /\ responses = <<>>
    /\ cache = <<>>
    /\ call = [c \in Calls |-> [pc |-> "idle"]]
    /\ now = 0
    /\ got = NoResponse
    /\ vulnerabilities = <<>>
    /\ scored = <<>>
    /\ sub_results = <<>>
    /\ combined = <<>>
    /\ api = IdleRequest

\* main.py and the pipeline share no state (main.py never calls the pipeline):
\* a behaviour exercises one of the two, the other staying as constructed.
JobsUntouched == analysis_results = <<>>
PipeUntouched == cache = <<>> /\ now = 0 /\ \A c \in Calls : call[c].pc = "idle"

\* A client posts a request.
Submit(request) == PipeUntouched /\ analyze_contract_route(request)

\* A caller invokes the pipeline; callers take turns (no invocation is made
\* while another is in flight).
Invoke(c, address, code, transaction_data) ==
    JobsUntouched /\ NoCallInFlight /\ Enter(c, address, code, transaction_data)

ClockTick == JobsUntouched /\ Tick

Next ==
    \/ \E request \in ContractAnalysisRequest : Submit(request)
    \/ \E id \in JobIds : RunStart(id)
    \/ \E id \in JobIds : StaticReturn(id)
    \/ \E id \in JobIds : StaticTimeout(id)
    \/ \E id \in JobIds : DynamicReturn(id)
    \/ \E id \in JobIds : DynamicTimeout(id)
    \/ \E id \in JobIds : RunComplete(id)
    \/ \E id \in JobIds : RunFail(id)
    \/ \E c \in Calls, address \in PipeAddresses, code \in Codes, tx \in BOOLEAN :
          Invoke(c, address, code, tx)
    \/ \E c \in Calls, kind \in KindSet, reply \in Replies : RunnerReturn(c, kind, reply)
    \/ \E c \in Calls, kind \in KindSet : RunnerRaise(c, kind)
    \/ \E c \in Calls : Combine(c)
    \/ \E c \in Calls : Release(c)
    \/ ClockTick

Spec == Init /\ [][Next]_vars

\* The scoring of perform_static_analysis, lines 241-251, on any list of
\* findings: the lists the scan can build and lists of up to MaxFindings
\* findings of the three severities.
Severities == {"high", "medium", "low"}

RECURSIVE Lists(_, _)
Lists(S, n) ==
    IF n = 0 THEN {<<>>}
    ELSE Lists(S, n - 1) \cup {Append(l, x) : l \in Lists(S, n - 1), x \in S}

FindingLists ==
    {StaticVulns(source) : source \in SUBSET Constructs}
    \cup Lists({Vuln(sev, "finding") : sev \in Severities}, MaxFindings)

ScoreInit ==
    /\ analysis_results = <<>>
    /\ task = <<>>
    /\ responses = <<>>
    /\ cache = <<>>
    /\ call = [c \in Calls |-> [pc |-> "idle"]]
    /\ now = 0
    /\ got = NoResponse
    /\ vulnerabilities \in FindingLists
    /\ scored = <<>>
    /\ sub_results = <<>>
    /\ combined = <<>>
    /\ api = IdleRequest

Score ==
    /\ DOMAIN scored = {}
    /\ scored' = [security_score |-> SecurityScore(vulnerabilities)]
    /\ UNCHANGED <<analysis_results, task, responses, got, vulnerabilities, pipeVars, clientVars, now>>

ScoreNext == Score

ScoreSpec == ScoreInit /\ [][ScoreNext]_vars

\* _combine_analysis_results, lines 536-564, on sub-results that report
\* vulnerabilities: the static sub-analysis in the JSON Gemini answered with
\* (findings), the RAG sub-analysis in the answer of the QA chain (analysis).
\* The dynamic and gas sub-results report none; each of the four may also be
\* an error dict, and the dynamic one an exception delivered by gather.
ReportedPool ==
    {[title |-> "Reentrancy", location |-> "C.sol:10", severity |-> "low"],
     [title |-> "Unchecked call", location |-> "C.sol:20", severity |-> "critical"],
     [title |-> "Timestamp dependence", location |-> "C.sol:30", severity |-> "medium"]}

ReportedLists == Lists(ReportedPool, MaxReported)

StaticFound(vs) == [type |-> "static_analysis", findings |-> vs, confidence |-> 85]
RagFound(vs) == [type |-> "rag_analysis", analysis |-> vs, confidence |-> 80]

MergeInputs ==
    {<<st, dy, rg, gs>> :
        st \in {Returned(StaticFound(vs)) : vs \in ReportedLists}
                 \cup {Returned(_static_analysis("raise"))},
        dy \in {Returned(_dynamic_analysis(TRUE, "ok")),
                 Returned(_dynamic_analysis(TRUE, "raise")), Raised},
        rg \in {Returned(RagFound(vs)) : vs \in ReportedLists}
                 \cup {Returned(_rag_analysis("raise"))},
        gs \in {Returned(_gas_analysis("ok")), Returned(_gas_analysis("raise"))}}

MergeInit ==
    /\ analysis_results = <<>>
    /\ task = <<>>
    /\ responses = <<>>
    /\ cache = <<>>
    /\ call = [c \in Calls |-> [pc |-> "idle"]]
    /\ now = 0
    /\ got = NoResponse
    /\ vulnerabilities = <<>>
    /\ scored = <<>>
    /\ sub_results \in MergeInputs
    /\ combined = <<>>
    /\ api = IdleRequest

Merge ==
    /\ DOMAIN combined = {}
    /\ combined' = _combine_analysis_results(sub_results)
    /\ UNCHANGED <<sub_results, cache, call, jobVars, clientVars, now>>

MergeNext == Merge

MergeSpec == MergeInit /\ [][MergeNext]_vars

\* _make_api_request on every number of retries, backoff factor and sequence
\* of replies.
RetryNext ==
    \/ \E retries \in 0..MaxRetries, backoff_factor \in BackoffFactors :
           _make_api_request(retries, backoff_factor)
    \/ \E reply \in HttpReplies, e \in JsonErrors : Attempt(reply, e)

RetrySpec == Init /\ [][RetryNext]_vars

\* The job registry with its readers: clients poll GET /api/analysis/{id} at
\* any point of the jobs' runs.  The handler copies a record's results without
\* looking into them, so the static block is exercised here with the two
\* outcomes of a fetch that gets no answer.
GetNext ==
    \/ \E request \in ContractAnalysisRequest : Submit(request)
    \/ \E id \in JobIds : RunStart(id)
    \/ \E id \in JobIds : StaticTimeout(id)
    \/ \E id \in JobIds : DynamicReturn(id)
    \/ \E id \in JobIds : DynamicTimeout(id)
    \/ \E id \in JobIds : RunComplete(id)
    \/ \E id \in JobIds : RunFail(id)
    \/ \E id \in GetIds : Get(id)

GetSpec == Init /\ [][GetNext]_vars

\* The pipeline with callers that do not wait for each other: an invocation
\* may start while others are between their gather and their return.  Every
\* call asks about the same contract; the Gemini call of the static
\* sub-analysis answers or raises, the other collaborators answer.
OverlapReplies(kind) == IF kind = "static" THEN Replies ELSE {"ok"}

OverlapNext ==
    \/ \E c \in Calls, address \in PipeAddresses, code \in Codes, tx \in BOOLEAN :
          Enter(c, address, code, tx)
    \/ \E c \in Calls, kind \in KindSet :
          \E reply \in OverlapReplies(kind) : RunnerReturn(c, kind, reply)
    \/ \E c \in Calls : Combine(c)

OverlapSpec == Init /\ [][OverlapNext]_vars

\* The pipeline asked about one contract under both spellings of its address,
\* by callers that do not wait for each other; every collaborator answers.
SpellingNext ==
    \/ \E c \in Calls, address \in Addresses, code \in Codes, tx \in BOOLEAN :
          Enter(c, address, code, tx)
    \/ \E c \in Calls, kind \in KindSet : RunnerReturn(c, kind, "ok")
    \/ \E c \in Calls : Combine(c)

SpellingSpec == Init /\ [][SpellingNext]_vars

\* What the event loop and the HTTP client's timer guarantee: a queued or
\* resumable task is run, and a request without an answer times out.  Nothing
\* obliges a collaborator to answer, so the steps that need its answer
\* (StaticReturn, DynamicReturn, RunnerReturn with a collaborator) carry no
\* fairness.
\* The dynamic sub-analysis of a call without transaction data returns at once,
\* with no collaborator involved.
RunnerSkip(c) == RunnerReturn(c, "dynamic", "ok") /\ ~call[c].transaction_data

Fairness ==
    /\ \A c \in Calls : WF_vars(RunnerSkip(c))
    /\ \A id \in JobIds : WF_vars(RunStart(id))
    /\ \A id \in JobIds : WF_vars(StaticTimeout(id))
    /\ \A id \in JobIds : WF_vars(DynamicTimeout(id))
    /\ \A id \in JobIds : WF_vars(RunComplete(id))
    /\ \A c \in Calls : WF_vars(Combine(c))

LiveSpec == Init /\ [][Next]_vars /\ Fairness

\* The job registry alone under the same guarantees, no client acting after
\* its submit.  Whether a job ends does not depend on what its static result
\* holds, so the static block is exercised with the two outcomes of a fetch
\* that gets no answer.
JobLiveNext ==
    \/ \E request \in ContractAnalysisRequest : Submit(request)
    \/ \E id \in JobIds : RunStart(id)
    \/ \E id \in JobIds : StaticTimeout(id)
    \/ \E id \in JobIds : DynamicReturn(id)
    \/ \E id \in JobIds : DynamicTimeout(id)
    \/ \E id \in JobIds : RunComplete(id)
    \/ \E id \in JobIds : RunFail(id)

JobLiveSpec == Init /\ [][JobLiveNext]_vars /\ Fairness

\* ===================================================================
\* Properties
\* ===================================================================
IsFailure(r) ==
    r.state = "raised" \/ (r.state = "returned" /\ "error" \in DOMAIN r.value)
AllTerminal(sub) == \A k \in KindSet : sub[k].state \in {"returned", "raised"}
Computed(c) == call[c].pc = "done" /\ ~call[c].hit
RaisedKinds(sub) == {k \in KindSet : sub[k].state = "raised"}
TypeOf(kind) ==
    CASE kind = "static" -> "static_analysis" [] kind = "dynamic" -> "dynamic_analysis"
      [] kind = "rag" -> "rag_analysis" [] OTHER -> "gas_analysis"
InAnalyses(report, value) ==
    /\ "analyses" \in DOMAIN report
    /\ \E i \in 1..Len(report.analyses) : report.analyses[i] = value
\* analyze_contract returns from its gather with all four sub-analyses failed.
AllFailedReturn(c) ==
    /\ call[c].pc = "gathering" /\ call'[c].pc = "done"
    /\ \A k \in KindSet : IsFailure(call[c].sub[k])

\* C1: when every sub-analysis of a request ends as a failure (error result or
\* raised exception), the call creates no cache entry for the request's key:
\* the step in which it returns leaves the cache as it was.
C1_NoCacheOnTotalFailure ==
    [][\A c \in Calls : AllFailedReturn(c) => cache' = cache]_vars

\* C2: when exactly one of the four sub-analyses raises an unexpected
\* exception, the other three still ran to their end (none cancelled, none
\* skipped), analyze_contract returns a merged report and not its error dict,
\* and the report contains the result of each of the other three that
\* returned one.
C2_RunnerIsolation ==
    \A c \in Calls :
        (Computed(c) /\ Cardinality(RaisedKinds(call[c].sub)) = 1) =>
            /\ \A k \in KindSet \ RaisedKinds(call[c].sub) :
                   call[c].sub[k].state = "returned"
            /\ call[c].ret # ErrorReturn
            /\ "analyses" \in DOMAIN call[c].ret
            /\ \A k \in KindSet :
                   IsValidResult(call[c].sub[k]) =>
                       InAnalyses(call[c].ret, call[c].sub[k].value)

C2_Witness ==
    \E c \in Calls :
        /\ Computed(c)
        /\ Cardinality(RaisedKinds(call[c].sub)) = 1
        /\ \A k \in KindSet \ RaisedKinds(call[c].sub) : IsValidResult(call[c].sub[k])
        /\ Len(call[c].ret.analyses) = 3

\* C3: a job's status only moves pending -> in_progress -> completed or
\* pending -> in_progress -> failed, a record is never removed, and once the
\* status is completed or failed no step changes the record (status, results,
\* error).
C3_StatusOrder ==
    [][\A id \in DOMAIN analysis_results :
          /\ id \in DOMAIN analysis_results'
          /\ analysis_results'[id].status # analysis_results[id].status =>
                 <<analysis_results[id].status, analysis_results'[id].status>> \in
                     {<<"pending", "in_progress">>, <<"in_progress", "completed">>,
                      <<"in_progress", "failed">>}
          /\ analysis_results[id].status \in {"completed", "failed"} =>
                 analysis_results'[id] = analysis_results[id]]_vars

C3_Witness ==
    \E i, j \in DOMAIN analysis_results :
        /\ analysis_results[i].status = "completed"
        /\ analysis_results[j].status = "failed"

\* The results with which a sub-analysis of main.py reports that it could not
\* do its work: static could not fetch or analyse, dynamic could not run its
\* simulation.
JobKindFailed(kind, result) ==
    IF kind = "static" THEN result = StaticFallback
    ELSE result \in {perform_dynamic_analysis(sim) :
                        sim \in {"unreachable", "timeout", "metadata_error"}}
AllRequestedFailed(id) ==
    /\ task[id].request.analysis_types # {}
    /\ \A k \in task[id].request.analysis_types :
           k \in DOMAIN task[id].results /\ JobKindFailed(k, task[id].results[k])

\* C4: a job all of whose requested analyses failed ends in state failed with
\* an error message and is never in state completed.
C4_AllFailedJobFails ==
    \A id \in DOMAIN task :
        (task[id].pc = "done" /\ AllRequestedFailed(id)) =>
            /\ analysis_results[id].status = "failed"
            /\ "error" \in DOMAIN analysis_results[id]

\* C5: an analyze_contract call that finds a non-expired entry under the
\* request's key returns exactly the cached report, starts none of the four
\* sub-analyses and leaves the cache alone.
C5_CacheHitShortCircuit ==
    [][\A c \in Calls :
          (/\ call[c].pc = "idle" /\ call'[c].pc # "idle"
           /\ call'[c].key \in DOMAIN cache
           /\ _is_cache_valid(cache[call'[c].key])) =>
              /\ call'[c].pc = "done"
              /\ call'[c].ret = cache[call'[c].key].data
              /\ \A k \in KindSet : call'[c].sub[k].state = "not started"
              /\ cache' = cache]_vars

C5_Witness ==
    \E c \in Calls :
        /\ call[c].pc = "done" /\ call[c].hit
        /\ call[c].ret = cache[call[c].key].data
        /\ call[c].ret.analyses # <<>>
        /\ call[c].ret.analysis_timestamp < now

\* C6: an entry is stored with the time of the store and the time-to-live; a
\* lookup at a time now < stored + ttl is served the entry's report, a lookup
\* at now >= stored + ttl recomputes; nothing but the lookup expires entries.
C6_TTLBoundary ==
    [][/\ \A k \in DOMAIN cache' :
              (k \notin DOMAIN cache \/ cache'[k] # cache[k]) =>
                  cache'[k].timestamp = now /\ cache'[k].ttl = TTL
       /\ \A c \in Calls :
              (/\ call[c].pc = "idle" /\ call'[c].pc # "idle"
               /\ call'[c].key \in DOMAIN cache) =>
                  IF now < cache[call'[c].key].timestamp + cache[call'[c].key].ttl
                  THEN /\ call'[c].pc = "done"
                       /\ call'[c].ret = cache[call'[c].key].data
                  ELSE /\ call'[c].pc = "gathering"
                       /\ \A k \in KindSet : call'[c].sub[k] = Running]_vars

\* A recomputation started exactly at the expiry time of the stored entry.
C6_Witness ==
    \E c \in Calls :
        /\ call[c].pc = "gathering"
        /\ call[c].key \in DOMAIN cache
        /\ now = cache[call[c].key].timestamp + cache[call[c].key].ttl

\* C7: the merged report is built and cached, and a job marked completed, only
\* in a step taken when every launched sub-analysis has ended: no call returns
\* a computed report, no cache entry is written and no job becomes completed
\* while one of its sub-analyses is still running or still to run.
C7_FanInBarrier ==
    [][/\ \A c \in Calls :
              (call[c].pc = "gathering" /\ call'[c].pc = "done") =>
                  AllTerminal(call[c].sub)
       /\ cache' # cache =>
              \E c \in Calls :
                  /\ call[c].pc = "gathering" /\ AllTerminal(call[c].sub)
                  /\ call'[c].pc = "done"
       /\ \A id \in DOMAIN analysis_results :
              (/\ analysis_results[id].status # "completed"
               /\ analysis_results'[id].status = "completed") =>
                  /\ task[id].pc \notin {"static_call", "dynamic_call"}
                  /\ task[id].invoked = task[id].request.analysis_types
                  /\ DOMAIN task[id].results = task[id].request.analysis_types]_vars

C7_Witness ==
    \E c \in Calls :
        /\ Computed(c)
        /\ AllTerminal(call[c].sub)
        /\ call[c].key \in DOMAIN cache
        /\ cache[call[c].key].data = call[c].ret

\* C8: a sub-analysis that waits for an external collaborator does not stay
\* pending for ever: it ends, by the collaborator's answer or by a timeout.
C8_RunnerTimeout ==
    /\ \A c \in Calls : \A k \in KindSet :
           [](call[c].pc = "gathering" /\ call[c].sub[k].state = "running"
                => <>(~(call[c].pc = "gathering" /\ call[c].sub[k].state = "running")))
    /\ \A id \in JobIds :
           [](id \in DOMAIN task /\ task[id].pc \in {"static_call", "dynamic_call"}
                => <>(~(id \in DOMAIN task
                        /\ task[id].pc \in {"static_call", "dynamic_call"})))

\* C9: for every sub-analysis kind that was launched, the final report holds an
\* entry of that kind, a failure entry when the sub-analysis failed.
C9_FailureRecorded ==
    \A c \in Calls :
        Computed(c) =>
            /\ "analyses" \in DOMAIN call[c].ret
            /\ \A k \in KindSet :
                   \E i \in 1..Len(call[c].ret.analyses) :
                       call[c].ret.analyses[i].type = TypeOf(k)

\* C10: submit adds exactly one record, under an id that had none, in state
\* pending with empty results; every other record and task is unchanged; the
\* response carries that id with status pending; and the job's run_analysis is
\* queued with no sub-analysis started.
C10_SubmitCreatesPending ==
    [][DOMAIN analysis_results' # DOMAIN analysis_results =>
          \E id \in DOMAIN analysis_results' \ DOMAIN analysis_results :
              /\ DOMAIN analysis_results' = DOMAIN analysis_results \cup {id}
              /\ analysis_results'[id].status = "pending"
              /\ analysis_results'[id].results = <<>>
              /\ \A j \in DOMAIN analysis_results :
                     analysis_results'[j] = analysis_results[j] /\ task'[j] = task[j]
              /\ responses'[id] = [analysis_id |-> id, status |-> "pending",
                                   results |-> <<>>]
              /\ task'[id].pc = "queued"
              /\ task'[id].invoked = {}
              /\ task'[id].results = <<>>]_vars

C10_Witness ==
    \E i, j \in DOMAIN analysis_results :
        /\ analysis_results[i].status = "completed"
        /\ analysis_results[j].status = "pending"
        /\ task[j].pc = "queued"
        /\ responses[j].status = "pending"

\* C11: a get answers not-found exactly for the ids no submit has returned;
\* for a submitted id, at whatever point of the job's run the get is served, it
\* answers (no exception) with a record of the four fields whose status is
\* pending, in_progress, completed or failed.
C11_GetWellFormed ==
    got # NoResponse =>
        /\ "raised" \notin DOMAIN got
        /\ "status_code" \in DOMAIN got <=> got.analysis_id \notin DOMAIN responses
        /\ "status_code" \notin DOMAIN got =>
               /\ DOMAIN got = {"analysis_id", "status", "results", "error"}
               /\ got.status \in {"pending", "in_progress", "completed", "failed"}
               /\ got.status = analysis_results[got.analysis_id].status
               /\ DOMAIN got.results \subseteq JobKinds

\* A get served between the two blocks of run_analysis, while another id is
\* still unknown.
C11_Witness ==
    /\ got # NoResponse
    /\ "status_code" \notin DOMAIN got
    /\ got.status = "in_progress"
    /\ DOMAIN got.results = {"static"}
    /\ task[got.analysis_id].pc = "dynamic_call"

\* C12: a request with a malformed address, an unsupported network or an empty
\* list of analysis kinds is rejected by submit: no record and no run_analysis
\* task exists for such a request.  (The requests of this model carry
\* well-formed addresses and a supported network; the empty list of kinds is
\* the case that is drawn.)
C12_ValidationBeforeCreation ==
    \A id \in DOMAIN task :
        /\ task[id].request.analysis_types # {}
        /\ task[id].request.network \in Networks
        /\ task[id].request.contract_address \in Addresses

\* C13: a job invokes a sub-analysis of kind k only when k is among the kinds
\* of its request, its record never holds a result of another kind, and when
\* the job is completed every requested kind was invoked and the results of the
\* record hold exactly the requested kinds.
C13_OnlyRequestedKinds ==
    \A id \in DOMAIN task :
        /\ task[id].invoked \subseteq task[id].request.analysis_types
        /\ DOMAIN task[id].results \subseteq task[id].request.analysis_types
        /\ "results" \in DOMAIN analysis_results[id] =>
               DOMAIN analysis_results[id].results \subseteq task[id].request.analysis_types
        /\ analysis_results[id].status = "completed" =>
               /\ task[id].invoked = task[id].request.analysis_types
               /\ DOMAIN analysis_results[id].results = task[id].request.analysis_types

\* A static-only job completed without the dynamic analysis, next to a
\* completed job that asked for both.
C13_Witness ==
    \E i, j \in DOMAIN task :
        /\ task[i].request.analysis_types = {"static"}
        /\ analysis_results[i].status = "completed"
        /\ task[i].invoked = {"static"}
        /\ DOMAIN analysis_results[i].results = {"static"}
        /\ task[j].request.analysis_types = JobKinds
        /\ analysis_results[j].status = "completed"
        /\ DOMAIN analysis_results[j].results = JobKinds

\* C14: a call that finds no valid entry for its key starts its own four
\* sub-analyses even while another call for the same key is computing, returns
\* the report combined from its own sub-results, and stores that report under
\* the key, replacing what was there and touching no other key: after two
\* overlapping calls the key's single entry is the report of the call that
\* returned last.
C14_LastWriterWins ==
    [][\A c \in Calls :
          /\ (/\ call[c].pc = "idle" /\ call'[c].pc # "idle"
               /\ ~(call'[c].key \in DOMAIN cache /\ _is_cache_valid(cache[call'[c].key]))) =>
                  /\ call'[c].pc = "gathering"
                  /\ \A k \in KindSet : call'[c].sub[k] = Running
          /\ (call[c].pc = "gathering" /\ call'[c].pc = "done") =>
                  /\ AllTerminal(call[c].sub)
                  /\ call'[c].ret = _combine_analysis_results(GatherResults(call[c].sub))
                  /\ DOMAIN cache' = DOMAIN cache \cup {call[c].key}
                  /\ cache'[call[c].key].data = call'[c].ret
                  /\ \A k \in DOMAIN cache \ {call[c].key} : cache'[k] = cache[k]]_vars

\* Two calls for one key that both computed, with different reports: the
\* cache holds one entry, the report of one of them.
C14_Witness ==
    \E c1, c2 \in Calls :
        /\ c1 # c2
        /\ Computed(c1) /\ Computed(c2)
        /\ call[c1].key = call[c2].key
        /\ call[c1].ret # call[c2].ret
        /\ Cardinality(DOMAIN cache) = 1
        /\ cache[call[c2].key].data = call[c2].ret

\* A result that tells its reader that the sub-analysis failed.
FailureMarked(result) == "error" \in DOMAIN result /\ result.error # "None"

\* C15: whatever its collaborators do, a sub-analysis function hands a result
\* to its caller, and when a collaborator raised or could not be reached the
\* result is a failure result: every result stored for a static or dynamic
\* sub-analysis of a job, and every value returned by a sub-analysis of the
\* pipeline, that was produced from a collaborator error carries the error.
C15_RunnersNeverRaise ==
    /\ \A id \in DOMAIN task :
           /\ "static" \in DOMAIN task[id].results =>
                  \A details \in ContractDetails :
                      (/\ details.fetch = "failed"
                       /\ task[id].results["static"] = perform_static_analysis(details)) =>
                          FailureMarked(task[id].results["static"])
           /\ "dynamic" \in DOMAIN task[id].results =>
                  \A sim \in {"unreachable", "timeout", "metadata_error"} :
                      task[id].results["dynamic"] = perform_dynamic_analysis(sim) =>
                          FailureMarked(task[id].results["dynamic"])
    /\ \A c \in Calls :
           call[c].pc \in {"gathering", "done"} =>
               \A k \in KindSet :
                   (/\ call[c].sub[k].state = "returned"
                    /\ call[c].sub[k].value # Runner(k, call[c].transaction_data, "ok")) =>
                       FailureMarked(call[c].sub[k].value)

\* Two dynamic results are of the same kind when they have the same fields
\* with the same values, the wording of a present error message apart.
SameKind(r1, r2) ==
    /\ DOMAIN r1 = DOMAIN r2
    /\ \A k \in DOMAIN r1 \ {"error"} : r1[k] = r2[k]
    /\ (r1.error = "None") <=> (r2.error = "None")

\* The dynamic results of a simulation that could not be run.
CouldNotRun ==
    {perform_dynamic_analysis(sim) : sim \in {"unreachable", "timeout", "metadata_error"}}

\* C16: the dynamic result of a simulation that the service ran and reported
\* as reverted and the dynamic result of a simulation that could not be run
\* are never of the same kind.
C16_RevertIsNotFailure ==
    \A i, j \in DOMAIN task :
        (/\ "dynamic" \in DOMAIN task[i].results
         /\ "dynamic" \in DOMAIN task[j].results
         /\ task[i].results["dynamic"] = perform_dynamic_analysis("reverted")
         /\ task[j].results["dynamic"] \in CouldNotRun) =>
            ~SameKind(task[i].results["dynamic"], task[j].results["dynamic"])

CountSeverity(vs, sev) == Cardinality({i \in 1..Len(vs) : vs[i].severity = sev})

\* C17: the security score of a list of findings is
\* max(0, 10 - 2 * highs - 1 * mediums - 0.5 * lows) (in tenths: 100, 20, 10,
\* 5), is 10 for the empty list and lies between 0 and 10.
C17_SecurityScore ==
    DOMAIN scored # {} =>
        /\ scored.security_score =
               Max(0, 100 - 20 * CountSeverity(vulnerabilities, "high")
                          - 10 * CountSeverity(vulnerabilities, "medium")
                          - 5 * CountSeverity(vulnerabilities, "low"))
        /\ vulnerabilities = <<>> => scored.security_score = 100
        /\ 0 <= scored.security_score /\ scored.security_score <= 100

\* A scored list with findings of all three severities whose deductions exceed
\* ten points: the floor applies.
C17_Witness ==
    /\ DOMAIN scored # {}
    /\ scored.security_score = 0
    /\ \A sev \in Severities : CountSeverity(vulnerabilities, sev) > 0
    /\ 20 * CountSeverity(vulnerabilities, "high")
           + 10 * CountSeverity(vulnerabilities, "medium")
           + 5 * CountSeverity(vulnerabilities, "low") > 100

\* What fetch_contract_details returns when the source cannot be had.
SourceUnavailable == {details \in ContractDetails : details.fetch = "ok" /\ ~details.is_verified}

\* C18: the static result of a contract whose source is unavailable is not a
\* failure: it has exactly one warning, no vulnerability and score 0.0, and a
\* job that asked for the static analysis only and got this result ends
\* completed.
C18_UnverifiedIsNotFailure ==
    \A id \in DOMAIN task : \A details \in SourceUnavailable :
        (/\ "static" \in DOMAIN task[id].results
         /\ task[id].results["static"] = perform_static_analysis(details)) =>
            /\ ~FailureMarked(task[id].results["static"])
            /\ "warnings" \in DOMAIN task[id].results["static"]
            /\ Len(task[id].results["static"].warnings) = 1
            /\ task[id].results["static"].vulnerabilities = <<>>
            /\ task[id].results["static"].security_score = 0
            /\ (task[id].request.analysis_types = {"static"} /\ task[id].pc = "done") =>
                   /\ analysis_results[id].status = "completed"
                   /\ analysis_results[id].results = task[id].results

C18_Witness ==
    \E id \in DOMAIN task : \E details \in SourceUnavailable :
        /\ task[id].request.analysis_types = {"static"}
        /\ task[id].pc = "done"
        /\ analysis_results[id].status = "completed"
        /\ analysis_results[id].results["static"] = perform_static_analysis(details)
        /\ Len(analysis_results[id].results["static"].warnings) = 1

\* str.lower on the addresses of this model.
Lower(address) == IF address = "0xAb" THEN "0xab" ELSE address

\* C19: two requests whose addresses differ only in letter case and whose code
\* is the same have the same cache key, and a call that starts while the
\* cache holds a valid report stored by a call for the other spelling returns
\* that report from the cache.
C19_KeyIgnoresCase ==
    [][\A c1, c2 \in Calls :
          (/\ call'[c1].pc # "idle" /\ call'[c2].pc # "idle"
           /\ Lower(call'[c1].address) = Lower(call'[c2].address)
           /\ call'[c1].code = call'[c2].code) =>
              /\ call'[c1].key = call'[c2].key
              /\ (/\ call[c2].pc = "idle"
                   /\ Computed(c1)
                   /\ call[c1].key \in DOMAIN cache
                   /\ _is_cache_valid(cache[call[c1].key])) =>
                      /\ call'[c2].pc = "done"
                      /\ call'[c2].hit
                      /\ call'[c2].ret = cache[call[c1].key].data]_vars

\* A sub-analysis succeeded when it returned a result without an error and
\* did its work (it was not skipped).
Succeeded(r) ==
    /\ IsValidResult(r)
    /\ ~("status" \in DOMAIN r.value /\ r.value.status = "skipped")
SucceededKinds(sub) == {k \in KindSet : Succeeded(sub[k])}
ConfidenceOf(sub, k) == IF Succeeded(sub[k]) THEN sub[k].value.confidence ELSE 0

\* C20: the confidence_score of a computed report is the arithmetic mean of
\* the confidences of the sub-analyses that succeeded, and 0 when none did; a
\* failed or skipped sub-analysis adds neither a term nor a count.  (In units
\* of 1/1200, in which the mean of up to four hundredths is an integer.)
C20_MeanConfidence ==
    \A c \in Calls :
        (Computed(c) /\ ~GatherRaises(call[c].sub)) =>
            call[c].ret.confidence_score =
                IF SucceededKinds(call[c].sub) = {} THEN 0
                ELSE (12 * (ConfidenceOf(call[c].sub, "static")
                            + ConfidenceOf(call[c].sub, "dynamic")
                            + ConfidenceOf(call[c].sub, "rag")
                            + ConfidenceOf(call[c].sub, "gas")))
                        \div Cardinality(SucceededKinds(call[c].sub))

SameFinding(v, w) == v.title = w.title /\ v.location = w.location

\* C21: the merged report lists at most one vulnerability per (title,
\* location) pair, the first one seen among the successful sub-results, and
\* lists every pair that a successful sub-result reported.
C21_MergeDeduplicates ==
    DOMAIN combined # {} =>
        LET listed == ReportVulns(combined)
            seen == InputVulns(sub_results)
        IN  /\ \A i, j \in 1..Len(listed) : SameFinding(listed[i], listed[j]) => i = j
            /\ \A i \in 1..Len(listed) :
                   \E j \in 1..Len(seen) :
                       /\ seen[j] = listed[i]
                       /\ \A k \in 1..(j - 1) : ~SameFinding(seen[k], seen[j])
            /\ \A j \in 1..Len(seen) :
                   \E i \in 1..Len(listed) : SameFinding(listed[i], seen[j])

\* critical > high > medium > low > info
SeverityRank(sev) ==
    CASE sev = "critical" -> 0 [] sev = "high" -> 1 [] sev = "medium" -> 2
      [] sev = "low" -> 3 [] OTHER -> 4

\* C22: the merged report lists the vulnerabilities by falling severity, and
\* two of the same severity in the order in which the sub-results reported
\* them.
C22_MergeSortsBySeverity ==
    DOMAIN combined # {} =>
        LET listed == ReportVulns(combined)
            seen == InputVulns(sub_results)
        IN  /\ \A i, j \in 1..Len(listed) :
                   i < j => SeverityRank(listed[i].severity) <= SeverityRank(listed[j].severity)
            /\ \A i, j \in 1..Len(listed) :
                   (i < j /\ listed[i].severity = listed[j].severity
                          /\ ~SameFinding(listed[i], listed[j])) =>
                       \E k, l \in 1..Len(seen) :
                           k < l /\ seen[k] = listed[i] /\ seen[l] = listed[j]

\* The arguments of the merger with one more vulnerability reported by the
\* static or by the RAG sub-analysis, or with one reported vulnerability at
\* the highest severity instead of its own.
MoreFindings(results) ==
    (IF IsValidResult(results[1])
     THEN {[results EXCEPT ![1] = Returned(StaticFound(Append(results[1].value.findings, v)))] :
              v \in ReportedPool}
          \cup {[results EXCEPT ![1] = Returned(StaticFound(
                     [results[1].value.findings EXCEPT ![i].severity = "critical"]))] :
                  i \in 1..Len(results[1].value.findings)}
     ELSE {})
    \cup
    (IF IsValidResult(results[3])
     THEN {[results EXCEPT ![3] = Returned(RagFound(Append(results[3].value.analysis, v)))] :
              v \in ReportedPool}
     ELSE {})

\* C23: the overall_risk_score of every merged report lies in [0, 100], and
\* merging the same sub-results with one more, or one severer, vulnerability
\* gives a score that is not greater (so, step by step, neither does any
\* superset of the vulnerabilities).
C23_RiskScoreMonotone ==
    DOMAIN combined # {} =>
        /\ 0 <= combined.overall_risk_score /\ combined.overall_risk_score <= 100
        /\ \A more \in MoreFindings(sub_results) :
               /\ _combine_analysis_results(more).overall_risk_score
                      <= combined.overall_risk_score
               /\ 0 <= _combine_analysis_results(more).overall_risk_score
               /\ _combine_analysis_results(more).overall_risk_score <= 100

\* A merged report of two sub-results that both reported vulnerabilities, one
\* of them critical.
C23_Witness ==
    /\ DOMAIN combined # {}
    /\ IsValidResult(sub_results[1]) /\ IsValidResult(sub_results[3])
    /\ Len(sub_results[1].value.findings) = MaxReported
    /\ Len(sub_results[3].value.analysis) = MaxReported
    /\ \E i \in 1..Len(ReportVulns(combined)) : ReportVulns(combined)[i].severity = "critical"
    /\ combined.overall_risk_score = 0

\* The fields of the report of a complete analysis.
ReportKeys ==
    {"analysis_timestamp", "overall_risk_score", "analyses", "summary",
     "recommendations", "confidence_score"}

\* A report says that the analysis is incomplete when it has a field for it
\* beyond those of a complete report, or lists the failed sub-analyses.
IncompleteSignal(report) ==
    \/ DOMAIN report \ ReportKeys # {}
    \/ \E i \in 1..Len(report.analyses) : "error" \in DOMAIN report.analyses[i]

\* C24: merging sub-results that are all failures gives a well-formed report
\* with no vulnerabilities and confidence_score 0 that says explicitly that
\* the analysis is incomplete.
C24_AllFailureMerge ==
    (DOMAIN combined # {} /\ \A i \in 1..Len(sub_results) : IsFailure(sub_results[i])) =>
        /\ ReportKeys \subseteq DOMAIN combined
        /\ ReportVulns(combined) = <<>>
        /\ combined.summary.total_vulnerabilities = 0
        /\ combined.confidence_score = 0
        /\ IncompleteSignal(combined)

\* C25: every submitted job eventually has status completed or failed, with
\* no step of a client after the submit.
C25_JobLiveness ==
    \A id \in JobIds :
        [](id \in DOMAIN task =>
              <>(id \in DOMAIN analysis_results
                 /\ analysis_results[id].status \in {"completed", "failed"}))

\* A job that asked for both analyses and ran to completed.
C25_Witness ==
    \E id \in DOMAIN task :
        /\ task[id].request.analysis_types = JobKinds
        /\ task[id].pc = "done"
        /\ analysis_results[id].status = "completed"
        /\ DOMAIN analysis_results[id].results = JobKinds
        /\ got = NoResponse

\* C26: the requested sub-analyses of a job are launched together, none
\* waiting for another to return: as soon as one has been invoked all the
\* requested ones have been, so that a job asking for both has both in flight
\* while the first is still running; likewise a pipeline call that computes
\* has started all four of its sub-analyses.
C26_ConcurrentFanOut ==
    /\ \A id \in DOMAIN task :
           task[id].invoked # {} => task[id].invoked = task[id].request.analysis_types
    /\ \A c \in Calls :
           call[c].pc = "gathering" =>
               \A k \in KindSet : call[c].sub[k].state # "not started"

\* The kinds whose sub-analysis has returned to run_analysis.
ReturnedKinds(id) ==
    (IF task[id].pc \in {"dynamic_call", "finish", "done"}
        THEN {"static"} \cap task[id].request.analysis_types ELSE {})
    \cup (IF task[id].pc \in {"finish", "done"}
        THEN {"dynamic"} \cap task[id].request.analysis_types ELSE {})

\* C27: while a job is in_progress its results hold only requested kinds whose
\* sub-analysis has returned, each with the value it returned; a step that
\* leaves the job in_progress keeps every entry as it is; and the step to
\* completed leaves the results exactly as they were.
C27_PartialResultsGrow ==
    [][\A id \in DOMAIN analysis_results :
          analysis_results[id].status = "in_progress" =>
              /\ DOMAIN analysis_results[id].results \subseteq ReturnedKinds(id)
              /\ \A k \in DOMAIN analysis_results[id].results :
                     analysis_results[id].results[k] = task[id].results[k]
              /\ analysis_results'[id].status = "in_progress" =>
                     \A k \in DOMAIN analysis_results[id].results :
                         /\ k \in DOMAIN analysis_results'[id].results
                         /\ analysis_results'[id].results[k] = analysis_results[id].results[k]
              /\ analysis_results'[id].status = "completed" =>
                     analysis_results'[id].results = analysis_results[id].results]_vars

\* One job completed with both entries while another is in_progress with the
\* static entry only.
C27_Witness ==
    \E i, j \in DOMAIN analysis_results :
        /\ analysis_results[i].status = "completed"
        /\ DOMAIN analysis_results[i].results = JobKinds
        /\ analysis_results[j].status = "in_progress"
        /\ DOMAIN analysis_results[j].results = {"static"}
        /\ task[j].pc = "dynamic_call"

RequestFields == {"contract_address", "network", "timestamp"}

\* C28: the contract_address, network and timestamp that submit stored in a
\* job record are still in the record, with the same values, after every step.
C28_RequestDataPreserved ==
    [][\A id \in DOMAIN analysis_results :
          \A f \in RequestFields \cap DOMAIN analysis_results[id] :
              /\ f \in DOMAIN analysis_results'[id]
              /\ analysis_results'[id][f] = analysis_results[id][f]]_vars

\* The attempts of the invocation that ended with a request error.
FailedAttempts ==
    {i \in 1..Len(api.replies) :
        \/ api.replies[i] \in RequestExceptions
        \/ api.replies[i] = "bad_json" /\ ~(i = Len(api.replies) /\ api.raised = "ValueError")}

RequestEnded == api.pc \in {"returned", "raised"}

\* C29: _make_api_request makes at most `retries` attempts; it returns the
\* body of the first attempt that succeeds and makes no attempt after it; it
\* has slept backoff_factor ** attempt after each failed attempt that another
\* attempt follows and after no other; and it raises TenderlyError exactly
\* when it has ended with `retries` attempts made that all failed with a
\* request error.
C29_BoundedRetries ==
    api.pc # "idle" =>
        /\ Len(api.replies) <= api.retries
        /\ api.pc = "returned" =>
               /\ api.replies[Len(api.replies)] \in Bodies
               /\ api.returned = (IF api.replies[Len(api.replies)] = "empty" THEN "{}" ELSE "json")
        /\ \A i \in 1..Len(api.replies) :
               api.replies[i] \in Bodies => i = Len(api.replies) /\ api.pc = "returned"
        /\ Len(api.slept) = (IF RequestEnded THEN Max(Len(api.replies) - 1, 0)
                                              ELSE Len(api.replies))
        /\ \A i \in 1..Len(api.slept) :
               /\ api.slept[i] = Pow(api.backoff_factor, i - 1)
               /\ i \in FailedAttempts
        /\ api.raised = "TenderlyError" <=>
               /\ RequestEnded
               /\ Len(api.replies) = api.retries
               /\ FailedAttempts = 1..api.retries

\* Three attempts failed, with sleeps of 1 and 2 seconds between them and
\* TenderlyError at the end.
C29_Witness ==
    /\ api.pc = "raised"
    /\ api.raised = "TenderlyError"
    /\ api.retries = 3
    /\ Len(api.replies) = 3
    /\ api.slept = <<1, 2>>

\* The construct of the scan that a finding reports, "None" for a finding that
\* none of the three checks produces.
ConstructOf(v) ==
    IF v.title = "Self-Destruct Function" THEN "selfdestruct"
    ELSE IF v.title = "DelegateCall Usage" THEN "delegatecall"
    ELSE IF v.title = "Potential Reentrancy Risk" THEN "call"
    ELSE "None"

\* C30: every vulnerability of a stored static result reports a construct that
\* is in the fetched source the result was computed from; and a result computed
\* when the details could not be fetched has no vulnerabilities and is not an
\* unmarked result with a positive security score.
C30_FindingsNeverInvented ==
    \A id \in DOMAIN task : \A details \in ContractDetails :
        (/\ "static" \in DOMAIN task[id].results
         /\ task[id].results["static"] = perform_static_analysis(details)) =>
            LET result == task[id].results["static"]
            IN  /\ \A i \in 1..Len(result.vulnerabilities) :
                       ConstructOf(result.vulnerabilities[i]) \in details.source
                /\ details.fetch = "failed" =>
                       /\ result.vulnerabilities = <<>>
                       /\ FailureMarked(result) \/ result.security_score <= 0

====
